---------------------------- MODULE Spec2Model ----------------------------
(***************************************************************************)
(* A model of extract_loudest_section: the 16-bit PCM WAV codec            *)
(* (EncodeAudioAsS16LEWav, DecodeLin16WaveAsFloatVector and the chunk      *)
(* reader they use), the loudest-segment finder (TrimToLoudestSegment),    *)
(* the per-file pipeline (TrimFile) and the batch loop of main.            *)
(*                                                                         *)
(* Numbers.  The model checker's integers stop at 2^31-1, and the code     *)
(* computes in uint16_t, uint32_t, int and a 64-bit size_t.  A value whose *)
(* width matters is therefore held as a "word": the sequence of its bytes, *)
(* least significant first, which is also how memcpy lays it out in a WAV  *)
(* file on the little-endian hosts the Makefile builds for.  Word          *)
(* arithmetic below is exact modulo 256^width.                             *)
(*                                                                         *)
(* Samples.  A float sample is held as an integer count of 2^-16, so that  *)
(* an int16 value k decodes to 2k, the mean of two channels is an integer, *)
(* and roundf sees the half-way cases.  Every float sum the model forms is *)
(* far below 2^8, so the float additions of the code are exact on it.      *)
(***************************************************************************)
EXTENDS Integers, Sequences, FiniteSets, TLC

(***************************************************************************)
(* Bounds of the model.                                                    *)
(***************************************************************************)
\* Longest sample buffer handed to the loudest-segment finder on its own.
MaxLen == 5

(***************************************************************************)
(* Words: little-endian byte sequences.                                    *)
(***************************************************************************)
RECURSIVE LE(_, _)
\* The k-byte word of the natural number n < 2^31 (EncodeFixed16/32's memcpy).
LE(n, k) == IF k = 0 THEN <<>> ELSE <<n % 256>> \o LE(n \div 256, k - 1)

Zero(k) == [j \in 1..k |-> 0]

\* w truncated or zero-extended to k bytes (an unsigned integer conversion).
Resize(w, k) == [j \in 1..k |-> IF j <= Len(w) THEN w[j] ELSE 0]

\* The bitwise complement of a word.
Complement(w) == [j \in 1..Len(w) |-> 255 - w[j]]

\* Whether the unsigned value of w is below 2^31, so that Val(w) exists.
IsSmall(w) == \A j \in 1..Len(w) : (j > 4 => w[j] = 0) /\ (j = 4 => w[j] < 128)

RECURSIVE Val(_)
\* The unsigned value of a word for which IsSmall holds.
Val(w) == IF w = <<>> THEN 0 ELSE w[1] + 256 * Val(Tail(w))

RECURSIVE AddCarry(_, _, _)
AddCarry(a, b, c) ==
    IF a = <<>> THEN <<>>
    ELSE LET s == a[1] + b[1] + c
         IN  <<s % 256>> \o AddCarry(Tail(a), Tail(b), s \div 256)

\* a + b modulo 256^Len(a), for words of one width.
WAdd(a, b) == AddCarry(a, b, 0)

RECURSIVE MulByteCarry(_, _, _)
MulByteCarry(a, d, c) ==
    IF a = <<>> THEN <<>>
    ELSE LET s == a[1] * d + c
         IN  <<s % 256>> \o MulByteCarry(Tail(a), d, s \div 256)

RECURSIVE WMul(_, _)
\* a * b modulo 256^Len(b): a's digits times b, schoolbook.
WMul(a, b) ==
    IF a = <<>> \/ b = <<>> THEN Zero(Len(b))
    ELSE WAdd(MulByteCarry(b, a[1], 0),
              <<0>> \o WMul(Tail(a), SubSeq(b, 1, Len(b) - 1)))

RECURSIVE WLess(_, _)
\* Unsigned a < b, for words of one width.
WLess(a, b) ==
    IF a = <<>> THEN FALSE
    ELSE LET n == Len(a)
         IN  IF a[n] # b[n] THEN a[n] < b[n]
             ELSE WLess(SubSeq(a, 1, n - 1), SubSeq(b, 1, n - 1))

RECURSIVE DivRem(_, _, _)
\* Long division of a word by a small divisor d > 0, from the top digit down.
DivRem(w, d, r) ==
    IF w = <<>> THEN <<>>
    ELSE LET n   == Len(w)
             cur == r * 256 + w[n]
         IN  DivRem(SubSeq(w, 1, n - 1), d, cur % d) \o <<cur \div d>>

\* The unsigned quotient w / d, 0 < d < 2^16, as a word of w's width.
WDiv(w, d) == DivRem(w, d, 0)

\* The 4-byte two's-complement word of an int.
FromInt(n) == IF n >= 0 THEN LE(n, 4) ELSE Complement(LE((0 - n) - 1, 4))

\* The int a 4-byte word holds (the conversion uint32_t -> int of the builds).
ToInt(w) == IF w[4] < 128 THEN Val(w) ELSE (0 - Val(Complement(w))) - 1

RECURSIVE SeqsUpTo(_, _)
\* Every sequence over S of length at most n.
SeqsUpTo(S, n) ==
    IF n = 0 THEN {<<>>}
    ELSE LET shorter == SeqsUpTo(S, n - 1)
         IN  shorter \cup {Append(s, x) : s \in {t \in shorter : Len(t) = n - 1}, x \in S}

(***************************************************************************)
(* Samples.                                                                *)
(***************************************************************************)
\* fabsf
Abs(x) == IF x < 0 THEN 0 - x ELSE x

\* C's zero-based input[k] on a sequence.
At(s, k) == s[k + 1]

RECURSIVE SumAbs(_)
\* The float sum of |sample| over a buffer.
SumAbs(s) == IF s = <<>> THEN 0 ELSE Abs(s[1]) + SumAbs(Tail(s))

(***************************************************************************)
(* Status (status.h).                                                      *)
(***************************************************************************)
\* Status::OK()
OK == [code |-> "OK", msg |-> ""]

\* errors::InvalidArgument(...): the code and the fixed part of the message.
InvalidArgument(m) == [code |-> "INVALID_ARGUMENT", msg |-> m]

\* Status::ok()
IsOk(s) == s.code = "OK"

(***************************************************************************)
(* The WAV layout.                                                         *)
(***************************************************************************)
\* sizeof(size_t) of the 64-bit builds.
SizeT == 8

kuint16max == <<255, 255>>

kuint32max == <<255, 255, 255, 255>>

\* "RIFF"
kRiffChunkId == <<82, 73, 70, 70>>

\* "WAVE"
kRiffType == <<87, 65, 86, 69>>

\* "fmt "
kFormatChunkId == <<102, 109, 116, 32>>

\* "data"
kDataChunkId == <<100, 97, 116, 97>>

kFormatChunkSize == 16

kCompressionCodePcm == 1

kBitsPerSample == 16

kBytesPerSample == kBitsPerSample \div 8

\* sizeof(WavHeader): the RIFF, format and data chunk records.
kHeaderSize == 12 + 24 + 8

\* a - b modulo 256^Len(a).
WSub(a, b) == WAdd(a, WAdd(Complement(b), LE(1, Len(b))))

\* Unsigned a > b after both are converted to size_t.
SizeGreater(a, b) == WLess(Resize(b, SizeT), Resize(a, SizeT))

\* The value an int16_t holds, from the value of its two bytes.
AsInt16(u) == IF u >= 32768 THEN u - 65536 ELSE u

\* roundf(x / 2) for an integer x: halves round away from zero.
RoundHalf(x) == IF x >= 0 THEN (x + 1) \div 2 ELSE 0 - (((0 - x) + 1) \div 2)

\* FloatToInt16Sample: roundf(data * 32768) clamped to [kint16min, kint16max].
FloatToInt16Sample(data) ==
    LET r == RoundHalf(data)
    IN  IF r < 0 - 32768 THEN 0 - 32768 ELSE IF r > 32767 THEN 32767 ELSE r

\* Int16SampleToFloat: data / 32768.
Int16SampleToFloat(data) == 2 * data

\* EncodeFixed16(buf, static_cast<uint16_t>(sample))
EncodeSample(sample) == LE(IF sample < 0 THEN sample + 65536 ELSE sample, 2)

(***************************************************************************)
(* The chunk reader: ExpectText, ReadValue, ReadString.                    *)
(***************************************************************************)
\* const int new_offset = *offset + n: a size_t sum converted back to int.
\* Variant of the cursor arithmetic: the cursor stays where it is.
OffsetUnmoved(off, n) == off

NewOffset(off, n) == ToInt(WAdd(FromInt(off), LE(n, 4)))

\* new_offset > data_length, the int converted to size_t: a negative
\* new_offset is a huge unsigned value.
TooShort(new_offset, data_length) == new_offset < 0 \/ new_offset > data_length

\* The bytes data[off], ..., data[new_offset - 1].
Bytes(data, off, new_offset) == SubSeq(data, off + 1, new_offset)

ExpectText(data, expected_text, off) ==
    LET new_offset == NewOffset(off, Len(expected_text))
    IN  IF TooShort(new_offset, Len(data))
        THEN [status |-> InvalidArgument("Data too short when trying to read text"),
              offset |-> off]
        ELSE IF Bytes(data, off, new_offset) # expected_text
        THEN [status |-> InvalidArgument("Header mismatch"), offset |-> off]
        ELSE [status |-> OK, offset |-> new_offset]

\* ReadValue<T> with sizeof(T) = n; value is the n-byte word read.
ReadValue(data, n, off) ==
    LET new_offset == NewOffset(off, n)
    IN  IF TooShort(new_offset, Len(data))
        THEN [status |-> InvalidArgument("Data too short when trying to read value"),
              offset |-> off, value |-> Zero(n)]
        ELSE [status |-> OK, offset |-> new_offset,
              value |-> Bytes(data, off, new_offset)]

ReadString(data, expected_length, off) ==
    LET new_offset == NewOffset(off, expected_length)
    IN  IF TooShort(new_offset, Len(data))
        THEN [status |-> InvalidArgument("Data too short when trying to read string"),
              offset |-> off, value |-> <<>>]
        ELSE [status |-> OK, offset |-> new_offset,
              value |-> Bytes(data, off, new_offset)]

(***************************************************************************)
(* EncodeAudioAsS16LEWav.  audio is the caller's float array (audio_null   *)
(* when the pointer is null); the three counts are size_t words;           *)
(* wav_string is the string's content before the call.  A caller passes an *)
(* array of at least the num_samples floats the loop reads.                *)
(***************************************************************************)
\* const size_t bytes_per_second = sample_rate * kBytesPerSample;
BytesPerSecond(sample_rate, num_channels) ==
    WMul(sample_rate, LE(kBytesPerSample, SizeT))

\* if (file_size > kuint32max)
FileTooLarge(file_size) == SizeGreater(file_size, kuint32max)

EncodeAudioAsS16LEWav(audio_null, audio, sample_rate, num_channels, num_frames, wav_string) ==
    LET fail(m) == [status |-> InvalidArgument(m), wav_string |-> wav_string]
    IN  IF audio_null THEN fail("audio is null")
        ELSE IF sample_rate = Zero(SizeT) \/ SizeGreater(sample_rate, kuint32max)
        THEN fail("sample_rate must be in (0, 2^32), got: ")
        ELSE IF num_channels = Zero(SizeT) \/ SizeGreater(num_channels, kuint16max)
        THEN fail("num_channels must be in (0, 2^16), got: ")
        ELSE IF num_frames = Zero(SizeT)
        THEN fail("num_frames must be positive.")
        ELSE
        LET bytes_per_second == BytesPerSecond(sample_rate, num_channels)
            num_samples      == WMul(num_frames, num_channels)
            data_size        == WMul(num_samples, LE(kBytesPerSample, SizeT))
            file_size        == WAdd(LE(kHeaderSize, SizeT), data_size)
            bytes_per_frame  == WMul(LE(kBytesPerSample, SizeT), num_channels)
        IN  IF FileTooLarge(file_size)
            THEN fail("Provided channels and frames cannot be encoded as a WAV.")
            ELSE
            LET riff_chunk ==
                    kRiffChunkId
                    \o Resize(WSub(file_size, LE(8, SizeT)), 4)
                    \o kRiffType
                format_chunk ==
                    kFormatChunkId
                    \o LE(kFormatChunkSize, 4)
                    \o LE(kCompressionCodePcm, 2)
                    \o Resize(num_channels, 2)
                    \o Resize(sample_rate, 4)
                    \o Resize(bytes_per_second, 4)
                    \o Resize(bytes_per_frame, 2)
                    \o LE(kBitsPerSample, 2)
                data_chunk == kDataChunkId \o Resize(data_size, 4)
                n == Val(num_samples)
                samples == [j \in 1..(2 * n) |->
                              EncodeSample(FloatToInt16Sample(audio[(j + 1) \div 2]))
                                  [2 - (j % 2)]]
            IN  [status |-> OK,
                 wav_string |-> riff_chunk \o format_chunk \o data_chunk \o samples]

(***************************************************************************)
(* DecodeLin16WaveAsFloatVector.                                           *)
(***************************************************************************)
\* The header, from "RIFF" to the end of the format chunk.  channel_count and
\* sample_rate are the caller's variables: they keep their content (cc, sr)
\* until the header's value is read into them.
DecodeHeader(data, cc, sr) ==
    LET res(st, off, ch, rate, bps) ==
            [status |-> st, offset |-> off, channel_count |-> ch,
             sample_rate |-> rate, bytes_per_sample |-> bps]
        riff == ExpectText(data, kRiffChunkId, 0)
        total_file_size == ReadValue(data, 4, riff.offset)
        wave == ExpectText(data, kRiffType, total_file_size.offset)
        fmt == ExpectText(data, kFormatChunkId, wave.offset)
        format_chunk_size == ReadValue(data, 4, fmt.offset)
        audio_format == ReadValue(data, 2, format_chunk_size.offset)
        channel_count == ReadValue(data, 2, audio_format.offset)
        sample_rate == ReadValue(data, 4, channel_count.offset)
        bytes_per_second == ReadValue(data, 4, sample_rate.offset)
        bytes_per_sample == ReadValue(data, 2, bytes_per_second.offset)
        bits_per_sample == ReadValue(data, 2, bytes_per_sample.offset)
        \* ((bits_per_sample * *channel_count) + 7) / 8, in int
        expected_bytes_per_sample ==
            ((Val(bits_per_sample.value) * Val(channel_count.value)) + 7) \div 8
        \* bytes_per_sample * (*sample_rate), in uint32_t
        expected_bytes_per_second ==
            WMul(Resize(bytes_per_sample.value, 4), sample_rate.value)
    IN  IF ~IsOk(riff.status) THEN res(riff.status, riff.offset, cc, sr, 0)
        ELSE IF ~IsOk(total_file_size.status)
        THEN res(total_file_size.status, total_file_size.offset, cc, sr, 0)
        ELSE IF ~IsOk(wave.status) THEN res(wave.status, wave.offset, cc, sr, 0)
        ELSE IF ~IsOk(fmt.status) THEN res(fmt.status, fmt.offset, cc, sr, 0)
        ELSE IF ~IsOk(format_chunk_size.status)
        THEN res(format_chunk_size.status, format_chunk_size.offset, cc, sr, 0)
        ELSE IF /\ format_chunk_size.value # LE(16, 4)
                /\ format_chunk_size.value # LE(18, 4)
        THEN res(InvalidArgument("Bad file size for WAV: Expected 16 or 18, but got"),
                 format_chunk_size.offset, cc, sr, 0)
        ELSE IF ~IsOk(audio_format.status)
        THEN res(audio_format.status, audio_format.offset, cc, sr, 0)
        ELSE IF audio_format.value # LE(1, 2)
        THEN res(InvalidArgument("Bad audio format for WAV: Expected 1 (PCM), but got"),
                 audio_format.offset, cc, sr, 0)
        ELSE IF ~IsOk(channel_count.status)
        THEN res(channel_count.status, channel_count.offset, cc, sr, 0)
        ELSE LET ch == Val(channel_count.value) IN
        IF ~IsOk(sample_rate.status)
        THEN res(sample_rate.status, sample_rate.offset, ch, sr, 0)
        ELSE LET rate == sample_rate.value IN
        IF ~IsOk(bytes_per_second.status)
        THEN res(bytes_per_second.status, bytes_per_second.offset, ch, rate, 0)
        ELSE IF ~IsOk(bytes_per_sample.status)
        THEN res(bytes_per_sample.status, bytes_per_sample.offset, ch, rate, 0)
        ELSE LET bps == Val(bytes_per_sample.value) IN
        IF ~IsOk(bits_per_sample.status)
        THEN res(bits_per_sample.status, bits_per_sample.offset, ch, rate, bps)
        ELSE IF bits_per_sample.value # LE(16, 2)
        THEN res(InvalidArgument("Can only read 16-bit WAV files, but received "),
                 bits_per_sample.offset, ch, rate, bps)
        ELSE IF bps # expected_bytes_per_sample
        THEN res(InvalidArgument("Bad bytes per sample in WAV header: Expected "),
                 bits_per_sample.offset, ch, rate, bps)
        ELSE IF bytes_per_second.value # expected_bytes_per_second
        THEN res(InvalidArgument("Bad bytes per second in WAV header: Expected "),
                 bits_per_sample.offset, ch, rate, bps)
        ELSE IF format_chunk_size.value = LE(18, 4)
        THEN res(OK, bits_per_sample.offset + 2, ch, rate, bps)
        ELSE res(OK, bits_per_sample.offset, ch, rate, bps)

\* while (offset < wav_length): the int converted to size_t.
InBuffer(off, wav_length) == off >= 0 /\ off < wav_length

\* What *sample_count = chunk_size / bytes_per_sample can do.  With a zero
\* divisor the division is undefined: the builds trap (x86), or go on with a
\* quotient of zero (ARM) or of all ones (RISC-V).
Quotients(chunk_size, bytes_per_sample) ==
    IF bytes_per_sample # 0
    THEN {[trap |-> FALSE, q |-> WDiv(chunk_size, bytes_per_sample)]}
    ELSE {[trap |-> TRUE, q |-> Zero(4)],
          [trap |-> FALSE, q |-> Zero(4)],
          [trap |-> FALSE, q |-> kuint32max]}

\* The sample loop of the data chunk: data_count values of int16_t read from
\* off on, each converted to float.  The vector is resized first (memory is
\* taken to be there); when the data runs out the values read so far stand
\* at its front.
ReadSamples(data, off, data_count) ==
    LET available == (Len(data) - off) \div 2
        enough    == IsSmall(data_count) /\ Val(data_count) <= available
        n         == IF enough THEN Val(data_count) ELSE available
        value(k)  == Int16SampleToFloat(
                         AsInt16(Val(Bytes(data, off + 2 * (k - 1), off + 2 * k))))
    IN  [status |-> IF enough THEN OK
                    ELSE InvalidArgument("Data too short when trying to read value"),
         offset |-> off + 2 * n,
         float_values |-> [k \in 1..n |-> value(k)]]

(***************************************************************************)
(* State.                                                                  *)
(***************************************************************************)
VARIABLES
    \* TrimToLoudestSegment's frame
    input,                \* const std::vector<float>& input
    desired_samples,      \* int64_t desired_samples
    current_volume_sum,   \* float current_volume_sum
    loudest_end_index,    \* int64_t loudest_end_index
    loudest_volume,       \* float loudest_volume
    slide_i,              \* the slide loop's i
    loudest_start_index,  \* int64_t loudest_start_index
    output,               \* std::vector<float>* output
    tpc,                  \* where the call stands: idle, start, slide, done
    \* DecodeLin16WaveAsFloatVector's frame and out-parameters
    wav_data,             \* const uint8_t* wav_data, size_t wav_length
    offset,               \* int offset
    bytes_per_sample,     \* uint16_t bytes_per_sample
    was_data_found,       \* bool was_data_found
    float_values,         \* std::vector<float>* float_values
    sample_count,         \* uint32_t* sample_count, a 4-byte word
    channel_count,        \* uint16_t* channel_count
    sample_rate,          \* uint32_t* sample_rate, a 4-byte word
    dstatus,              \* the Status the call returns
    dpc,                  \* where the call stands: idle, header, scan, done, trap;
                          \* for a reader called on its own, the reader's name
    \* EncodeAudioAsS16LEWav's arguments and results
    enc_args,             \* audio, sample_rate, num_channels, num_frames
    wav_string,           \* string* wav_string
    estatus,              \* the Status the call returns
    epc,                  \* where the call stands: idle, call, done
    \* main and TrimFile
    input_filenames,      \* std::vector<std::string> input_filenames
    file_i,               \* the batch loop's i
    trim_status,          \* Status trim_status
    output_files,         \* the output directory: per output file, whether it was written
    processed,            \* the files TrimFile was called on, in call order
    pc                    \* where main stands: idle, loop, decode, trim, returned, exit, trap

trimVars == <<input, desired_samples, current_volume_sum, loudest_end_index,
              loudest_volume, slide_i, loudest_start_index, output, tpc>>

decVars == <<wav_data, offset, bytes_per_sample, was_data_found, float_values,
             sample_count, channel_count, sample_rate, dstatus, dpc>>

encVars == <<enc_args, wav_string, estatus, epc>>

mainVars == <<input_filenames, file_i, trim_status, output_files, processed, pc>>

vars == <<trimVars, decVars, encVars, mainVars>>

(***************************************************************************)
(* TrimToLoudestSegment.                                                   *)
(***************************************************************************)
\* Strict variant of the early-return test: an equal length is searched.
WholeBufferStrict(desired, input_size) == desired > input_size

\* if (desired_samples >= input_size): the whole buffer is the answer.
WholeBuffer(desired, input_size) == desired >= input_size

\* Non-strict variant of the comparison: a later equal window wins.
LouderOrEqual(current, loudest) == current >= loudest

\* if (current_volume_sum > loudest_volume)
Louder(current, loudest) == current > loudest

\* The three locals of the search after one pass of the slide loop at index k.
SlideStep(in, desired, k, sum, loudest, end) ==
    LET trailing_value == At(in, k - desired)
        leading_value  == At(in, k)
        new_sum        == (sum - Abs(trailing_value)) + Abs(leading_value)
    IN  IF Louder(new_sum, loudest)
        THEN [sum |-> new_sum, loudest |-> new_sum, end |-> k]
        ELSE [sum |-> new_sum, loudest |-> loudest, end |-> end]

\* The early return: *output = input.
TrimWhole ==
    /\ tpc = "start"
    /\ WholeBuffer(desired_samples, Len(input))
    /\ output' = input
    /\ tpc' = "done"
    /\ UNCHANGED <<input, desired_samples, current_volume_sum, loudest_end_index,
                   loudest_volume, slide_i, loudest_start_index>>
    /\ UNCHANGED <<decVars, encVars, mainVars>>

\* The first loop: the volume of the window [0, desired_samples).
TrimFirstWindow ==
    /\ tpc = "start"
    /\ ~WholeBuffer(desired_samples, Len(input))
    /\ current_volume_sum' = SumAbs(SubSeq(input, 1, desired_samples))
    /\ loudest_end_index' = desired_samples
    /\ loudest_volume' = current_volume_sum'
    /\ slide_i' = desired_samples
    /\ tpc' = "slide"
    /\ UNCHANGED <<input, desired_samples, loudest_start_index, output>>
    /\ UNCHANGED <<decVars, encVars, mainVars>>

\* One pass of the slide loop.
TrimSlide ==
    /\ tpc = "slide"
    /\ slide_i < Len(input)
    /\ LET r == SlideStep(input, desired_samples, slide_i, current_volume_sum,
                          loudest_volume, loudest_end_index)
       IN  /\ current_volume_sum' = r.sum
           /\ loudest_volume' = r.loudest
           /\ loudest_end_index' = r.end
    /\ slide_i' = slide_i + 1
    /\ UNCHANGED <<input, desired_samples, loudest_start_index, output, tpc>>
    /\ UNCHANGED <<decVars, encVars, mainVars>>

\* After the loop: the window [loudest_start_index, loudest_end_index) is copied.
TrimCopy ==
    /\ tpc = "slide"
    /\ slide_i >= Len(input)
    /\ loudest_start_index' = loudest_end_index - desired_samples
    /\ output' = SubSeq(input, loudest_start_index' + 1, loudest_end_index)
    /\ tpc' = "done"
    /\ UNCHANGED <<input, desired_samples, current_volume_sum, loudest_end_index,
                   loudest_volume, slide_i>>
    /\ UNCHANGED <<decVars, encVars, mainVars>>


(***************************************************************************)
(* DecodeLin16WaveAsFloatVector, step by step: the header, then one pass   *)
(* of the chunk loop at a time.                                            *)
(***************************************************************************)
\* return status, the cursor where it stands.
DecodeReturn(st, off) ==
    /\ dstatus' = st
    /\ offset' = off
    /\ dpc' = "done"

DecodeHeaderStep ==
    /\ dpc = "header"
    /\ LET h == DecodeHeader(wav_data, channel_count, sample_rate)
       IN  /\ offset' = h.offset
           /\ channel_count' = h.channel_count
           /\ sample_rate' = h.sample_rate
           /\ bytes_per_sample' = h.bytes_per_sample
           /\ dstatus' = h.status
           /\ dpc' = IF IsOk(h.status) THEN "scan" ELSE "done"
    /\ was_data_found' = FALSE
    /\ UNCHANGED <<wav_data, float_values, sample_count>>
    /\ UNCHANGED <<trimVars, encVars, mainVars>>

\* One pass of while (offset < wav_length).
DecodeChunk ==
    /\ dpc = "scan"
    /\ InBuffer(offset, Len(wav_data))
    /\ LET chunk_id   == ReadString(wav_data, 4, offset)
           chunk_size == ReadValue(wav_data, 4, chunk_id.offset)
       IN  IF ~IsOk(chunk_id.status)
           THEN /\ DecodeReturn(chunk_id.status, chunk_id.offset)
                /\ UNCHANGED <<was_data_found, float_values, sample_count>>
           ELSE IF ~IsOk(chunk_size.status)
           THEN /\ DecodeReturn(chunk_size.status, chunk_size.offset)
                /\ UNCHANGED <<was_data_found, float_values, sample_count>>
           ELSE IF chunk_id.value = kDataChunkId
           THEN IF was_data_found
                THEN /\ DecodeReturn(
                            InvalidArgument("More than one data chunk found in WAV"),
                            chunk_size.offset)
                     /\ UNCHANGED <<was_data_found, float_values, sample_count>>
                ELSE \E d \in Quotients(chunk_size.value, bytes_per_sample) :
                        IF d.trap
                        THEN /\ dpc' = "trap"
                             /\ was_data_found' = TRUE
                             /\ offset' = chunk_size.offset
                             /\ UNCHANGED <<dstatus, float_values, sample_count>>
                        ELSE LET data_count == WMul(d.q, LE(channel_count, 4))
                                 r == ReadSamples(wav_data, chunk_size.offset,
                                                  data_count)
                             IN  /\ was_data_found' = TRUE
                                 /\ sample_count' = d.q
                                 /\ float_values' = r.float_values
                                 /\ offset' = r.offset
                                 /\ dstatus' = r.status
                                 /\ dpc' = IF IsOk(r.status) THEN "scan" ELSE "done"
           ELSE \* offset += chunk_size
                /\ offset' = ToInt(WAdd(FromInt(chunk_size.offset), chunk_size.value))
                /\ UNCHANGED <<was_data_found, float_values, sample_count, dstatus,
                               dpc>>
    /\ UNCHANGED <<wav_data, bytes_per_sample, channel_count, sample_rate>>
    /\ UNCHANGED <<trimVars, encVars, mainVars>>

\* The loop is left: the data chunk was found, or it was not.
DecodeFinish ==
    /\ dpc = "scan"
    /\ ~InBuffer(offset, Len(wav_data))
    /\ DecodeReturn(IF was_data_found THEN OK
                    ELSE InvalidArgument("No data chunk found in WAV"), offset)
    /\ UNCHANGED <<wav_data, bytes_per_sample, was_data_found, float_values,
                   sample_count, channel_count, sample_rate>>
    /\ UNCHANGED <<trimVars, encVars, mainVars>>

(***************************************************************************)
(* EncodeAudioAsS16LEWav as one step on its arguments.                     *)
(***************************************************************************)
Encode ==
    /\ epc = "call"
    /\ LET r == EncodeAudioAsS16LEWav(enc_args.audio_null, enc_args.audio,
                                      enc_args.sample_rate, enc_args.num_channels,
                                      enc_args.num_frames, wav_string)
       IN  /\ estatus' = r.status
           /\ wav_string' = r.wav_string
    /\ epc' = "done"
    /\ UNCHANGED enc_args
    /\ UNCHANGED <<trimVars, decVars, mainVars>>

(***************************************************************************)
(* What the frames hold while no call is in them.                          *)
(***************************************************************************)
NoArgs == [audio_null |-> FALSE, audio |-> <<>>, sample_rate |-> Zero(SizeT),
           num_channels |-> Zero(SizeT), num_frames |-> Zero(SizeT)]

TrimIdle ==
    /\ current_volume_sum = 0
    /\ loudest_end_index = 0
    /\ loudest_volume = 0
    /\ slide_i = 0
    /\ loudest_start_index = 0
    /\ output = <<>>

TrimGone ==
    /\ input = <<>>
    /\ desired_samples = 0
    /\ TrimIdle
    /\ tpc = "idle"

DecodeIdle ==
    /\ offset = 0
    /\ bytes_per_sample = 0
    /\ was_data_found = FALSE
    /\ float_values = <<>>
    /\ sample_count = Zero(4)
    /\ channel_count = 0
    /\ sample_rate = Zero(4)
    /\ dstatus = OK

DecodeGone ==
    /\ wav_data = <<>>
    /\ DecodeIdle
    /\ dpc = "idle"

EncodeGone ==
    /\ enc_args = NoArgs
    /\ wav_string = <<>>
    /\ estatus = OK
    /\ epc = "idle"

MainGone ==
    /\ input_filenames = <<>>
    /\ file_i = 0
    /\ trim_status = OK
    /\ output_files = <<>>
    /\ processed = <<>>
    /\ pc = "idle"

(***************************************************************************)
(* The input files.  A file is the bytes MemMappedFile maps; what the      *)
(* input directory holds is the environment's choice, drawn from a         *)
(* catalogue: every well-formed mono or stereo file over a few sample      *)
(* values and rates, and files that are malformed in one place each.       *)
(***************************************************************************)
\* Most int16 values in the data chunk of a generated well-formed file.
MaxSamples == 4

\* Most files in one batch.
MaxFiles == 2

\* A chunk: 4-byte id, uint32 size, payload.
Chunk(id, size, payload) == id \o size \o payload

\* The little-endian bytes of a sequence of int16 values.
SampleBytes(values) ==
    [j \in 1..(2 * Len(values)) |-> EncodeSample(values[(j + 1) \div 2])[2 - (j % 2)]]

DataChunkOf(values) ==
    Chunk(kDataChunkId, LE(2 * Len(values), 4), SampleBytes(values))

\* A file with the given format-chunk fields and the given bytes after them.
WavFile(fmt_size, audio_format, channels, rate, bytes_per_second, bytes_per_frame, bits, rest) ==
    LET body == kRiffType \o kFormatChunkId \o LE(fmt_size, 4) \o LE(audio_format, 2)
                \o LE(channels, 2) \o rate \o bytes_per_second
                \o LE(bytes_per_frame, 2) \o LE(bits, 2)
                \o (IF fmt_size = 18 THEN <<0, 0>> ELSE <<>>) \o rest
    IN  kRiffChunkId \o LE(Len(body), 4) \o body

\* A file whose header is consistent, with the given bytes after it.
ConsistentWav(fmt_size, channels, rate, rest) ==
    WavFile(fmt_size, 1, channels, LE(rate, 4), LE(2 * channels * rate, 4),
            2 * channels, 16, rest)

\* 0, a sample below the volume threshold, a loud negative sample.
FileSampleValues == {0, 100, 0 - 16384}

FileRates == {1, 2, 3}

WellFormedFiles ==
    {ConsistentWav(16, ch, rate, DataChunkOf(v)) :
        ch \in {1, 2}, rate \in FileRates,
        v \in {u \in SeqsUpTo(FileSampleValues, MaxSamples) : Len(u) % 2 = 0}}
    \cup {ConsistentWav(16, 1, rate, DataChunkOf(v)) :
        rate \in FileRates,
        v \in {u \in SeqsUpTo(FileSampleValues, MaxSamples) : Len(u) % 2 = 1}}

\* The file the malformed ones are made from: mono, rate 1, one loud sample.
Loud == <<0 - 16384>>

BaseFile == ConsistentWav(16, 1, 1, DataChunkOf(Loud))

\* "LIST", a chunk the decoder skips.
kListChunkId == <<76, 73, 83, 84>>

ListChunk == Chunk(kListChunkId, LE(2, 4), <<1, 2>>)

\* BaseFile with one byte of a literal replaced by 'X'.
BadLiteralFiles ==
    {[j \in 1..Len(BaseFile) |-> IF j = at THEN 88 ELSE BaseFile[j]] :
        at \in {1, 4, 9, 12, 13, 16}}

BadFormatFiles ==
    {WavFile(sz, 1, 1, LE(1, 4), LE(2, 4), 2, 16, DataChunkOf(Loud)) : sz \in {14, 17, 20}}
    \cup {WavFile(16, af, 1, LE(1, 4), LE(2, 4), 2, 16, DataChunkOf(Loud)) : af \in {0, 3}}
    \cup {WavFile(16, 1, 1, LE(1, 4), LE(2, 4), 2, bits, DataChunkOf(Loud)) :
            bits \in {8, 24, 32}}
    \cup {WavFile(16, 1, 1, LE(1, 4), LE(2, 4), 4, 16, DataChunkOf(Loud)),
          WavFile(16, 1, 1, LE(1, 4), LE(4, 4), 2, 16, DataChunkOf(Loud))}

TruncatedFiles == {SubSeq(BaseFile, 1, n) : n \in {0, 2, 10, 21, 35, 40, 45}}

ChunkFiles ==
    {ConsistentWav(sz, ch, 1, rest) :
        sz \in {16, 18}, ch \in {1, 2},
        rest \in {<<>>,
                  ListChunk,
                  ListChunk \o DataChunkOf(<<100, 100>>),
                  DataChunkOf(<<100, 100>>) \o ListChunk,
                  DataChunkOf(Loud \o Loud) \o DataChunkOf(Loud \o Loud),
                  \* a data chunk of one int16 (half a frame when there are
                  \* two channels), then a second data chunk
                  DataChunkOf(<<0>>) \o DataChunkOf(<<>>),
                  \* a data chunk that declares more than the file holds
                  Chunk(kDataChunkId, LE(8, 4), SampleBytes(Loud \o Loud)),
                  \* a skipped chunk that declares more than the file holds
                  DataChunkOf(Loud \o Loud) \o Chunk(kListChunkId, LE(100, 4), <<1, 2>>),
                  \* skipped chunks whose size takes the int cursor back or below 0
                  Chunk(kListChunkId, <<248, 255, 255, 255>>, <<1, 2>>),
                  Chunk(kListChunkId, LE(2, 4), <<1, 2>>)
                      \o Chunk(kListChunkId, <<238, 255, 255, 255>>, <<>>),
                  DataChunkOf(Loud \o Loud)
                      \o Chunk(kListChunkId, <<0, 0, 0, 128>>, <<1, 2>>)}}

\* Headers that declare a sample rate or a channel count of zero.
ZeroFieldFiles ==
    {WavFile(16, 1, 1, Zero(4), Zero(4), 2, 16, DataChunkOf(v)) :
        v \in {<<>>, Loud, <<100>>}}
    \cup {WavFile(16, 1, 0, LE(rate, 4), Zero(4), 0, 16, DataChunkOf(Loud)) :
            rate \in {0, 1}}

Catalogue ==
    WellFormedFiles \cup BadLiteralFiles \cup BadFormatFiles \cup TruncatedFiles
    \cup ChunkFiles \cup ZeroFieldFiles

(***************************************************************************)
(* TrimFile and the batch loop of main.                                    *)
(***************************************************************************)
\* const int64_t desired_length_ms = 1000;
desired_length_ms == 1000

\* const float min_volume = 0.004f, as a fraction.
min_volume == [num |-> 4, den |-> 1000]

\* (desired_length_ms * sample_rate) / 1000, in int64_t.
DesiredSamples(length_ms, rate) ==
    WDiv(WMul(LE(length_ms, SizeT), Resize(rate, SizeT)), 1000)

\* The mono buffer: per frame, the sum of the channels over channel_count.
\* The float division is exact for the one and two channels of the catalogue.
Downmix(wav_samples, channels, mono_sample_count) ==
    LET total(frame_index) ==
            LET sum[c \in 0..channels] ==
                    IF c = 0 THEN 0 ELSE sum[c - 1] + At(wav_samples, frame_index + c - 1)
            IN  sum[channels]
    IN  [k \in 1..mono_sample_count |-> total((k - 1) * channels) \div channels]

\* The threshold test with the comparison turned round.
LoudEnough(total_volume, desired, threshold) ==
    /\ desired # 0
    /\ total_volume * threshold.den > threshold.num * 65536 * desired

\* average_volume < min_volume, with average_volume = total_volume /
\* desired_samples in float: 0/0 is NaN, and NaN is below nothing.
TooQuiet(total_volume, desired, threshold) ==
    /\ desired # 0
    /\ total_volume * threshold.den < threshold.num * 65536 * desired

\* The frames of TrimFile and its callees, as they are once it has returned.
FramesGone ==
    /\ input' = <<>>
    /\ desired_samples' = 0
    /\ current_volume_sum' = 0
    /\ loudest_end_index' = 0
    /\ loudest_volume' = 0
    /\ slide_i' = 0
    /\ loudest_start_index' = 0
    /\ output' = <<>>
    /\ tpc' = "idle"
    /\ wav_data' = <<>>
    /\ offset' = 0
    /\ bytes_per_sample' = 0
    /\ was_data_found' = FALSE
    /\ float_values' = <<>>
    /\ sample_count' = Zero(4)
    /\ channel_count' = 0
    /\ sample_rate' = Zero(4)
    /\ dstatus' = OK
    /\ dpc' = "idle"
    /\ enc_args' = NoArgs
    /\ wav_string' = <<>>
    /\ estatus' = OK
    /\ epc' = "idle"

\* main's loop test passes: TrimFile is called on the next file, maps it and
\* calls the decoder.
MainCallTrimFile ==
    /\ pc = "loop"
    /\ file_i < Len(input_filenames)
    /\ processed' = Append(processed, At(input_filenames, file_i))
    /\ \E bytes \in Catalogue : wav_data' = bytes
    /\ dpc' = "header"
    /\ pc' = "decode"
    /\ UNCHANGED <<offset, bytes_per_sample, was_data_found, float_values,
                   sample_count, channel_count, sample_rate, dstatus>>
    /\ UNCHANGED <<input_filenames, file_i, trim_status, output_files>>
    /\ UNCHANGED <<trimVars, encVars>>

\* The decoder has returned: its failure is returned, or the samples are
\* mixed down to mono and handed to the finder.
TrimFileDecoded ==
    /\ pc = "decode"
    /\ dpc = "done"
    /\ IF ~IsOk(dstatus)
       THEN /\ trim_status' = dstatus
            /\ pc' = "returned"
            /\ UNCHANGED trimVars
       ELSE \E m \in (IF channel_count # 1
                      THEN Quotients(sample_count, channel_count)
                      ELSE {[trap |-> FALSE, q |-> sample_count]}) :
               \* a negative mono_sample_count makes the vector's constructor
               \* throw, and nothing catches it
               IF m.trap \/ (channel_count # 1 /\ ToInt(m.q) < 0)
               THEN /\ pc' = "trap"
                    /\ UNCHANGED <<trim_status, trimVars>>
               ELSE /\ input' = (IF channel_count # 1
                                 THEN Downmix(float_values, channel_count, ToInt(m.q))
                                 ELSE float_values)
                    /\ desired_samples' =
                           Val(DesiredSamples(desired_length_ms, sample_rate))
                    /\ tpc' = "start"
                    /\ pc' = "trim"
                    /\ UNCHANGED <<trim_status, current_volume_sum, loudest_end_index,
                                   loudest_volume, slide_i, loudest_start_index,
                                   output>>
    /\ UNCHANGED <<input_filenames, file_i, output_files, processed>>
    /\ UNCHANGED <<decVars, encVars>>

\* The finder has returned: the volume gate, then the encoder and the write.
TrimFileFinish ==
    /\ pc = "trim"
    /\ tpc = "done"
    /\ LET total_volume == SumAbs(output)
       IN  IF TooQuiet(total_volume, desired_samples, min_volume)
           THEN UNCHANGED <<encVars, output_files>>
           ELSE LET args == [audio_null |-> output = <<>>, audio |-> output,
                             sample_rate |-> Resize(sample_rate, SizeT),
                             num_channels |-> LE(1, SizeT),
                             num_frames |-> LE(Len(output), SizeT)]
                    save == EncodeAudioAsS16LEWav(args.audio_null, args.audio,
                                                  args.sample_rate, args.num_channels,
                                                  args.num_frames, <<>>)
                IN  /\ enc_args' = args
                    /\ estatus' = save.status
                    /\ wav_string' = save.wav_string
                    /\ epc' = "done"
                    \* std::ofstream output_file(output_filename), and the write
                    /\ output_files' = [output_files EXCEPT ![file_i + 1] = TRUE]
    /\ trim_status' = OK
    /\ pc' = "returned"
    /\ UNCHANGED <<input_filenames, file_i, processed>>
    /\ UNCHANGED <<trimVars, decVars>>

\* Back in main: TrimFile's frame is gone, the loop goes on with the next i.
MainNextFile ==
    /\ pc = "returned"
    /\ FramesGone
    /\ trim_status' = OK
    /\ file_i' = file_i + 1
    /\ pc' = "loop"
    /\ UNCHANGED <<input_filenames, output_files, processed>>

\* main's loop test fails: return 0.
MainExit ==
    /\ pc = "loop"
    /\ file_i >= Len(input_filenames)
    /\ pc' = "exit"
    /\ UNCHANGED <<input_filenames, file_i, trim_status, output_files, processed>>
    /\ UNCHANGED <<trimVars, decVars, encVars>>

Init ==
    /\ \E n \in 0..MaxFiles :
          /\ input_filenames = [k \in 1..n |-> k]
          /\ output_files = [k \in 1..n |-> FALSE]
    /\ file_i = 0
    /\ trim_status = OK
    /\ processed = <<>>
    /\ pc = "loop"
    /\ TrimGone
    /\ DecodeGone
    /\ EncodeGone

Next ==
    \/ MainCallTrimFile
    \/ DecodeHeaderStep
    \/ DecodeChunk
    \/ DecodeFinish
    \/ TrimFileDecoded
    \/ TrimWhole
    \/ TrimFirstWindow
    \/ TrimSlide
    \/ TrimCopy
    \/ TrimFileFinish
    \/ MainNextFile
    \/ MainExit

Spec == Init /\ [][Next]_vars

(***************************************************************************)
(* The codec on its own: the encoder on arguments drawn from in-range      *)
(* buffers and from the edges of its range checks, then the decoder on     *)
(* what the encoder wrote.                                                 *)
(***************************************************************************)
\* Longest float array handed to the encoder.
MaxEncSamples == 3

\* -1.0, -2^-16, 3 * 2^-16, 1.0
EncSampleValues == {0 - 65536, 0 - 1, 3, 65536}

\* 2^31, 2^32 and 2^63 as size_t
TwoTo31 == <<0, 0, 0, 128, 0, 0, 0, 0>>

TwoTo32 == <<0, 0, 0, 0, 1, 0, 0, 0>>

TwoTo63 == <<0, 0, 0, 0, 0, 0, 0, 128>>

EncRates ==
    {Zero(SizeT), LE(1, SizeT), LE(3, SizeT), TwoTo31, Resize(kuint32max, SizeT),
     TwoTo32}

EncChannels ==
    {Zero(SizeT), LE(1, SizeT), LE(2, SizeT), LE(3, SizeT), Resize(kuint16max, SizeT),
     LE(65536, SizeT)}

EncFrames ==
    {Zero(SizeT), LE(1, SizeT), LE(2, SizeT), LE(3, SizeT), TwoTo63,
     WAdd(TwoTo63, LE(1, SizeT))}

Args(null, a, rate, channels, frames) ==
    [audio_null |-> null, audio |-> a, sample_rate |-> rate,
     num_channels |-> channels, num_frames |-> frames]

\* What wav_string holds before the call.
PriorString == <<1, 2, 3>>

EncodeInputs ==
    \* an array of exactly the num_frames * num_channels floats the encoder counts
    {Args(FALSE, t[1], t[2], t[3], t[4]) :
        t \in {u \in SeqsUpTo(EncSampleValues, MaxEncSamples) \X EncRates
                      \X EncChannels \X EncFrames :
                  WMul(u[4], u[3]) = LE(Len(u[1]), SizeT)}}
    \* counts of 2^32 bytes and more, which the size check meets before any read:
    \* 2^31 - 22 frames of one channel (44 + 2n = 2^32), 65536 frames of 65535
    \cup {Args(FALSE, <<0>>, LE(1, SizeT), LE(1, SizeT), WSub(TwoTo31, LE(22, SizeT))),
          Args(FALSE, <<0>>, LE(1, SizeT), Resize(kuint16max, SizeT), LE(65536, SizeT))}
    \* a null array
    \cup {Args(TRUE, <<>>, LE(1, SizeT), LE(1, SizeT), LE(1, SizeT))}

\* The decoder is called on the bytes the encoder wrote.
DecodeEncoded ==
    /\ epc = "done"
    /\ IsOk(estatus)
    /\ dpc = "idle"
    /\ wav_data' = wav_string
    /\ dpc' = "header"
    /\ UNCHANGED <<offset, bytes_per_sample, was_data_found, float_values,
                   sample_count, channel_count, sample_rate, dstatus>>
    /\ UNCHANGED <<trimVars, encVars, mainVars>>

InitCodec ==
    /\ enc_args \in EncodeInputs
    /\ wav_string = PriorString
    /\ estatus = OK
    /\ epc = "call"
    /\ DecodeGone
    /\ TrimGone
    /\ MainGone

NextCodec ==
    \/ Encode
    \/ DecodeEncoded
    \/ DecodeHeaderStep
    \/ DecodeChunk
    \/ DecodeFinish

SpecCodec == InitCodec /\ [][NextCodec]_vars

(***************************************************************************)
(* The finder on its own: every short buffer over a few sample values,     *)
(* the two buffers the documentation works through, every window length.   *)
(***************************************************************************)
TrimSampleValues == {0 - 10, 0, 5}

LoudMiddleExample == <<0, 0, 0, 10, 10, 10, 0, 0, 0>>

AllEqualExample == <<5, 5, 5, 5, 5, 5>>

TrimInputs == SeqsUpTo(TrimSampleValues, MaxLen) \cup {LoudMiddleExample, AllEqualExample}

InitTrim ==
    /\ input \in TrimInputs
    /\ desired_samples \in 0..(MaxLen + 1)
    /\ TrimIdle
    /\ tpc = "start"
    /\ DecodeGone
    /\ EncodeGone
    /\ MainGone

NextTrim ==
    \/ TrimWhole
    \/ TrimFirstWindow
    \/ TrimSlide
    \/ TrimCopy

SpecTrim == InitTrim /\ [][NextTrim]_vars

(***************************************************************************)
(* Claims about the loudest-segment finder.                                *)
(***************************************************************************)
\* The sum of |sample| over the window of length d that starts at offset s.
WindowSum(in, s, d) == SumAbs(SubSeq(in, s + 1, s + d))

\* The largest window sum over every position 0..Len(in)-d of the buffer.
MaxWindowSum(in, d) ==
    LET sums == {WindowSum(in, s, d) : s \in 0..(Len(in) - d)}
    IN  CHOOSE m \in sums : \A x \in sums : x <= m

\* C1: for 0 < window_length < buffer length, the returned window's sum of
\* absolute sample values is the maximum over all windows of that length, the
\* last position included.
C1_ReturnsLoudestWindow ==
    (tpc = "done" /\ 0 < desired_samples /\ desired_samples < Len(input))
        => SumAbs(output) = MaxWindowSum(input, desired_samples)

\* C9: when window_length >= buffer length the finder returns the whole input
\* unchanged, straight from the entry test, with no pass through the search.
C9_WholeBufferReturned ==
    [][(tpc' = "done" /\ desired_samples >= Len(input))
          => (tpc = "start" /\ output' = input)]_vars

C9_Witness ==
    /\ tpc = "done"
    /\ Len(input) > 1
    /\ desired_samples > Len(input)
    /\ output = input

\* Whether every window of length d of the buffer has the same sum.
AllWindowsEqual(in, d) ==
    \A s, t \in 0..(Len(in) - d) : WindowSum(in, s, d) = WindowSum(in, t, d)

\* C10: a slide step changes the recorded best (volume, end index) only when
\* the new running sum strictly exceeds the best so far, and when all windows
\* have the same sum the returned start offset is 0.
C10_TieBreakEarliest ==
    [][/\ (tpc = "slide" /\ <<loudest_volume', loudest_end_index'>>
                                # <<loudest_volume, loudest_end_index>>)
            => current_volume_sum' > loudest_volume
       /\ (tpc = "slide" /\ tpc' = "done"
             /\ AllWindowsEqual(input, desired_samples))
            => loudest_start_index' = 0]_vars

C10_Witness ==
    /\ tpc = "done"
    /\ input = AllEqualExample
    /\ desired_samples = 3
    /\ loudest_start_index = 0
    /\ output = <<5, 5, 5>>

(***************************************************************************)
(* Claims about the codec.                                                 *)
(***************************************************************************)
\* Whether the array's values lie in [-1.0, 1.0].
InUnitRange(a) == \A k \in 1..Len(a) : 0 - 65536 <= a[k] /\ a[k] <= 65536

\* Whether the array holds num_frames * num_channels samples, the product
\* taken without wrapping: a product equal to the array's length has no
\* factor above it, unless it is 0.
HoldsEverySample(args) ==
    /\ IsSmall(args.num_frames)
    /\ IsSmall(args.num_channels)
    /\ LET f == Val(args.num_frames)
           c == Val(args.num_channels)
           n == Len(args.audio)
       IN  IF f = 0 \/ c = 0 THEN n = 0
           ELSE f <= n /\ c <= n /\ f * c = n

\* C2: when the encoder succeeds on samples in [-1.0, 1.0], the decoder
\* succeeds on the encoded bytes and returns the same sample rate, the same
\* channel count, and as many samples in the same order, each within 1/32768
\* of the original.
C2_RoundTrip ==
    (/\ epc = "done"
     /\ IsOk(estatus)
     /\ InUnitRange(enc_args.audio)
     /\ HoldsEverySample(enc_args)
     /\ dpc \in {"done", "trap"})
        => /\ dpc = "done"
           /\ IsOk(dstatus)
           /\ Resize(sample_rate, SizeT) = enc_args.sample_rate
           /\ LE(channel_count, SizeT) = enc_args.num_channels
           /\ Len(float_values) = Len(enc_args.audio)
           /\ \A k \in 1..Len(float_values) :
                 Abs(float_values[k] - enc_args.audio[k]) <= 2

\* Whether the true total size 44 + 2 * num_frames * num_channels exceeds
\* 2^32-1, that is num_frames * num_channels >= 2^31 - 22, that is
\* num_frames > (2^31 - 23) div num_channels; no product is formed, so
\* nothing wraps.
TrueSizeTooLarge(frames, channels) ==
    /\ frames # Zero(SizeT)
    /\ channels # Zero(SizeT)
    /\ \/ ~IsSmall(frames)
       \/ ~IsSmall(channels)
       \/ Val(frames) > 2147483625 \div Val(channels)

\* C8: the encoder returns InvalidArgument and leaves the output buffer as it
\* was whenever sample_rate or num_channels is 0 or out of range, num_frames
\* is 0, or the true total size exceeds 2^32-1.
C8_EncodeRejectsOutOfRange ==
    (/\ epc = "done"
     /\ \/ enc_args.sample_rate = Zero(SizeT)
        \/ SizeGreater(enc_args.sample_rate, kuint32max)
        \/ enc_args.num_channels = Zero(SizeT)
        \/ SizeGreater(enc_args.num_channels, kuint16max)
        \/ enc_args.num_frames = Zero(SizeT)
        \/ TrueSizeTooLarge(enc_args.num_frames, enc_args.num_channels))
        => /\ estatus.code = "INVALID_ARGUMENT"
           /\ wav_string = PriorString

(***************************************************************************)
(* Claims about the decoder and the trim pipeline.                         *)
(***************************************************************************)
\* The n bytes of the file at the given offset, or nothing if it ends before.
Field(bytes, at, n) == IF at + n <= Len(bytes) THEN SubSeq(bytes, at + 1, at + n) ELSE <<>>

RECURSIVE DataChunksFrom(_, _)
\* The number of chunks with id "data" in the chunk sequence that starts at
\* pos: each chunk is its 8-byte prefix and as many payload bytes as it declares.
DataChunksFrom(bytes, pos) ==
    IF pos + 8 > Len(bytes) THEN 0
    ELSE LET id   == Field(bytes, pos, 4)
             size == Field(bytes, pos + 4, 4)
         IN  (IF id = kDataChunkId THEN 1 ELSE 0)
             + (IF IsSmall(size) /\ pos + 8 + Val(size) <= Len(bytes)
                THEN DataChunksFrom(bytes, pos + 8 + Val(size))
                ELSE 0)

\* The conditions the claim lists for a file the decoder may accept.
AcceptableWav(bytes) ==
    /\ Field(bytes, 0, 4) = kRiffChunkId
    /\ Field(bytes, 8, 4) = kRiffType
    /\ Field(bytes, 12, 4) = kFormatChunkId
    /\ Field(bytes, 16, 4) \in {LE(16, 4), LE(18, 4)}
    /\ Field(bytes, 20, 2) = LE(1, 2)
    /\ Field(bytes, 34, 2) = LE(16, 2)
    /\ DataChunksFrom(bytes, 20 + Val(Field(bytes, 16, 4))) = 1

\* C4: the decoder returns success only for a file with the three literals,
\* an fmt size of 16 or 18, audio format 1, 16 bits per sample and exactly one
\* data chunk after the fmt chunk; for every other file the call ends with
\* InvalidArgument.
C4_DecodeAcceptsOnlyWellFormed ==
    (dpc \in {"done", "trap"} /\ ~AcceptableWav(wav_data))
        => (dpc = "done" /\ dstatus.code = "INVALID_ARGUMENT")

RECURSIVE FrameSum(_, _, _)
\* The sum of the n samples of a buffer from index at (zero-based) on.
FrameSum(samples, at, n) ==
    IF n = 0 THEN 0 ELSE At(samples, at) + FrameSum(samples, at + 1, n - 1)

\* C3: for a decoded buffer of F frames with channel_count > 1, the mono
\* buffer handed to the finder has F samples, the k-th the mean of frame k.
C3_DownmixKeepsFrames ==
    (pc = "trim" /\ tpc = "start" /\ channel_count > 1)
        => /\ Len(input) * channel_count = Len(float_values)
           /\ \A k \in 1..Len(input) :
                 input[k] * channel_count
                     = FrameSum(float_values, (k - 1) * channel_count, channel_count)

\* C5: when desired_samples is 0 for a decoded file, TrimFile returns a
\* failure and writes no output file.
C5_ZeroLengthRequestFails ==
    (pc = "returned" /\ tpc = "done" /\ desired_samples = 0)
        => (~IsOk(trim_status) /\ ~output_files[file_i + 1])

\* C6: when the decoder or the encoder returns a non-OK status inside
\* TrimFile, TrimFile returns that status and writes nothing.
C6_FirstFailureReturned ==
    pc = "returned"
        => /\ ~IsOk(dstatus) => (trim_status = dstatus /\ ~output_files[file_i + 1])
           /\ (epc = "done" /\ ~IsOk(estatus))
                 => (trim_status = estatus /\ ~output_files[file_i + 1])

\* Whether total / desired, a sum of samples over a count, is below num / den.
AverageBelow(total, desired, num, den) == total * den < num * 65536 * desired

\* C7: whenever the average volume of the extracted slice (the sum of its
\* absolute sample values over desired_samples) is below min_volume, TrimFile
\* has not called the encoder, has written no output file and returns OK.
C7_QuietSliceSkipped ==
    (/\ pc = "returned"
     /\ tpc = "done"
     /\ desired_samples > 0
     /\ AverageBelow(SumAbs(output), desired_samples, 4, 1000))
        => /\ epc = "idle"
           /\ ~output_files[file_i + 1]
           /\ IsOk(trim_status)

C7_Witness ==
    /\ pc = "returned"
    /\ tpc = "done"
    /\ desired_samples = 2
    /\ output = <<200, 200>>
    /\ epc = "idle"
    /\ ~output_files[file_i + 1]
    /\ IsOk(trim_status)

(***************************************************************************)
(* Claims about the batch loop.                                            *)
(***************************************************************************)
\* The process has ended: main has returned, or the process was killed in
\* TrimFile or in the decoder.
Ended == pc \in {"exit", "trap"} \/ dpc = "trap"

\* C11: every input file in the list is processed by TrimFile exactly once,
\* in list order, whatever TrimFile returned for earlier files, and nothing
\* ends the loop early: the files TrimFile was called on are always the front
\* of the list, and when the process has ended they are the whole list.
C11_EveryFileProcessedOnce ==
    /\ processed = SubSeq(input_filenames, 1, Len(processed))
    /\ Ended => processed = input_filenames

\* C12: the chunk-scan loop of DecodeLin16WaveAsFloatVector never revisits a
\* cursor position: every pass of the loop that leaves the call in the loop
\* leaves the cursor strictly further on than it found it, for any chunk ids
\* and any 32-bit chunk sizes, so that the loop exits on every finite buffer.
C12_CursorOnlyAdvances ==
    [][(dpc = "scan" /\ dpc' = "scan") => offset' > offset]_vars

\* C13: truncated input is rejected.  While DecodeLin16WaveAsFloatVector scans
\* and when it has returned, the cursor has not passed the end of the buffer,
\* and on every successful decode the final cursor equals the buffer length:
\* no chunk's declared payload and no fmt extension reaches past the end.
C13_TruncatedRejected ==
    /\ dpc \in {"scan", "done"} => offset <= Len(wav_data)
    /\ (dpc = "done" /\ IsOk(dstatus)) => offset = Len(wav_data)

(***************************************************************************)
(* DecodeLin16WaveAsFloatVector on its own: one call on a buffer, which    *)
(* need not be one TrimFile could go on with.                              *)
(***************************************************************************)
\* Headers whose products pass 2^32 or 2^16: two channels at 2^30 Hz and one
\* channel at 2^31 Hz and at 2^31 + 1 Hz with the byte rate the 32-bit product
\* leaves, and 32768 channels with the frame size 16 bits leave of 65536.
WrapFiles ==
    {WavFile(16, 1, 2, <<0, 0, 0, 64>>, Zero(4), 4, 16, DataChunkOf(<<>>)),
     WavFile(16, 1, 1, <<0, 0, 0, 128>>, Zero(4), 2, 16, DataChunkOf(Loud)),
     WavFile(16, 1, 1, <<1, 0, 0, 128>>, LE(2, 4), 2, 16, DataChunkOf(Loud)),
     WavFile(16, 1, 32768, LE(1, 4), Zero(4), 0, 16, DataChunkOf(Loud))}

InitDecode ==
    /\ wav_data \in Catalogue \cup WrapFiles
    /\ DecodeIdle
    /\ dpc = "header"
    /\ TrimGone
    /\ EncodeGone
    /\ MainGone

NextDecode ==
    \/ DecodeHeaderStep
    \/ DecodeChunk
    \/ DecodeFinish

SpecDecode == InitDecode /\ [][NextDecode]_vars

\* The call has returned success.
DecodeSucceeded == dpc = "done" /\ IsOk(dstatus)

\* C14: the header arithmetic is checked exactly.  The decoder succeeds only
\* if the declared bytes_per_frame is 2 * channel_count and the declared
\* bytes_per_second is bytes_per_frame * sample_rate as mathematical integers
\* (64-bit words hold the product of a 16-bit and a 32-bit field exactly); a
\* header that matches only modulo 2^32 or 2^16 is not accepted.
C14_HeaderArithmeticExact ==
    DecodeSucceeded =>
        /\ Val(Field(wav_data, 32, 2)) = 2 * Val(Field(wav_data, 22, 2))
        /\ Resize(Field(wav_data, 28, 4), SizeT)
               = WMul(Resize(Field(wav_data, 32, 2), SizeT),
                      Resize(Field(wav_data, 24, 4), SizeT))

\* The encoder has returned success.
EncodeSucceeded == epc = "done" /\ IsOk(estatus)

\* wav_string is 44 + 2n bytes long, n the product of the two counts as a
\* mathematical integer.
LengthIsHeaderAndSamples(bytes, frames, channels) ==
    /\ IsSmall(frames)
    /\ IsSmall(channels)
    /\ Val(frames) <= Len(bytes)
    /\ Val(channels) <= Len(bytes)
    /\ Len(bytes) = kHeaderSize + 2 * (Val(frames) * Val(channels))

\* C15: every successful EncodeAudioAsS16LEWav call with n = num_frames *
\* num_channels samples leaves exactly 44 + 2n bytes in wav_string, and the
\* header fields agree with one another: RIFF size = length - 8, fmt size 16,
\* compression 1, 16 bits per sample, data size = 2n, bytes_per_frame = 2 *
\* num_channels, and bytes_per_second = sample_rate * bytes_per_frame.
C15_EncodedHeaderConsistent ==
    EncodeSucceeded =>
        /\ LengthIsHeaderAndSamples(wav_string, enc_args.num_frames,
                                    enc_args.num_channels)
        /\ Field(wav_string, 4, 4) = LE(Len(wav_string) - 8, 4)
        /\ Field(wav_string, 16, 4) = LE(16, 4)
        /\ Field(wav_string, 20, 2) = LE(1, 2)
        /\ Field(wav_string, 34, 2) = LE(16, 2)
        /\ Field(wav_string, 40, 4) = LE(Len(wav_string) - kHeaderSize, 4)
        /\ Resize(Field(wav_string, 32, 2), SizeT)
               = WMul(LE(2, SizeT), enc_args.num_channels)
        /\ Resize(Field(wav_string, 28, 4), SizeT)
               = WMul(enc_args.sample_rate, Resize(Field(wav_string, 32, 2), SizeT))

\* C16: whenever DecodeLin16WaveAsFloatVector returns success, the sample
\* rate and the channel count it hands back are both at least 1: a header
\* that declares a sample rate of 0 or a channel count of 0 is not accepted.
C16_MetadataInRange ==
    DecodeSucceeded => (sample_rate # Zero(4) /\ channel_count >= 1)

\* The pass of the chunk loop that meets the first data chunk: it is the one
\* that sets was_data_found and evaluates chunk_size / bytes_per_sample.
DivisionExecuted == dpc = "scan" /\ ~was_data_found /\ was_data_found'

\* C17: in every pass of the chunk loop that executes sample_count =
\* chunk_size / bytes_per_frame the divisor is not zero, and the pass leaves
\* the call in the loop or returned with a status: no input ends the call in
\* anything but success or InvalidArgument.
C17_DivisorNeverZero ==
    [][DivisionExecuted => (bytes_per_sample # 0 /\ dpc' \in {"scan", "done"})]_vars

(***************************************************************************)
(* ExpectText, ReadValue<T> and ReadString, each called on its own with    *)
(* the cursor somewhere in the buffer, in the decoder's variables: data is *)
(* wav_data, *offset is offset, the Status returned is dstatus.            *)
(***************************************************************************)
\* 'F', 'I', 'R': buffers of these hold "RIFF" and texts that are not it.
ReaderBytes == {70, 73, 82}

ReaderBuffers == SeqsUpTo(ReaderBytes, MaxLen)

Readers == {"ExpectText", "ReadValue16", "ReadValue32", "ReadString"}

\* *offset is written on success and the Status is returned.
ReaderReturn(r) ==
    /\ offset' = r.offset
    /\ dstatus' = r.status
    /\ dpc' = "done"

\* ExpectText(wav_data, wav_length, kRiffChunkId, &offset), and with kRiffType
CallExpectText ==
    /\ dpc = "ExpectText"
    /\ \E expected_text \in {kRiffChunkId, kRiffType} :
          ReaderReturn(ExpectText(wav_data, expected_text, offset))
    /\ UNCHANGED <<wav_data, bytes_per_sample, was_data_found, float_values,
                   sample_count, channel_count, sample_rate>>
    /\ UNCHANGED <<trimVars, encVars, mainVars>>

\* ReadValue<uint16_t>(wav_data, wav_length, channel_count, &offset)
CallReadValue16 ==
    /\ dpc = "ReadValue16"
    /\ LET r == ReadValue(wav_data, 2, offset)
       IN  /\ ReaderReturn(r)
           /\ channel_count' = IF IsOk(r.status) THEN Val(r.value) ELSE channel_count
    /\ UNCHANGED <<wav_data, bytes_per_sample, was_data_found, float_values,
                   sample_count, sample_rate>>
    /\ UNCHANGED <<trimVars, encVars, mainVars>>

\* ReadValue<uint32_t>(wav_data, wav_length, sample_rate, &offset)
CallReadValue32 ==
    /\ dpc = "ReadValue32"
    /\ LET r == ReadValue(wav_data, 4, offset)
       IN  /\ ReaderReturn(r)
           /\ sample_rate' = IF IsOk(r.status) THEN r.value ELSE sample_rate
    /\ UNCHANGED <<wav_data, bytes_per_sample, was_data_found, float_values,
                   sample_count, channel_count>>
    /\ UNCHANGED <<trimVars, encVars, mainVars>>

\* ReadString(wav_data, wav_length, 4, &chunk_id, &offset)
CallReadString ==
    /\ dpc = "ReadString"
    /\ ReaderReturn(ReadString(wav_data, 4, offset))
    /\ UNCHANGED <<wav_data, bytes_per_sample, was_data_found, float_values,
                   sample_count, channel_count, sample_rate>>
    /\ UNCHANGED <<trimVars, encVars, mainVars>>

\* The decoder calls the readers with the cursor between 0 and wav_length.
InitReader ==
    /\ wav_data \in ReaderBuffers
    /\ offset \in 0..Len(wav_data)
    /\ bytes_per_sample = 0
    /\ was_data_found = FALSE
    /\ float_values = <<>>
    /\ sample_count = Zero(4)
    /\ channel_count = 0
    /\ sample_rate = Zero(4)
    /\ dstatus = OK
    /\ dpc \in Readers
    /\ TrimGone
    /\ EncodeGone
    /\ MainGone

NextReader ==
    \/ CallExpectText
    \/ CallReadValue16
    \/ CallReadValue32
    \/ CallReadString

SpecReader == InitReader /\ [][NextReader]_vars

\* A call for k bytes at cursor c in a buffer of length L: it succeeds with
\* the bytes c, ..., c + k - 1 all inside the buffer and the cursor at c + k,
\* or it returns InvalidArgument with the cursor still at c.
ReaderFrame(k) ==
    \/ /\ IsOk(dstatus')
       /\ offset >= 0
       /\ offset + k <= Len(wav_data)
       /\ offset' = offset + k
    \/ /\ dstatus'.code = "INVALID_ARGUMENT"
       /\ offset' = offset

\* C18: each of ExpectText, ReadValue<T> and ReadString, called with cursor c
\* on a buffer of length L for k bytes, either succeeds having read only the
\* bytes at indices c, ..., c + k - 1 with c + k <= L (the value handed back
\* is those bytes) and leaves the cursor at c + k, or returns InvalidArgument
\* and leaves the cursor at c: no byte at an index >= L or < 0 is read.
C18_ReaderFrameAndBounds ==
    [][/\ dpc \in {"ExpectText", "ReadString", "ReadValue32"} => ReaderFrame(4)
       /\ dpc = "ReadValue16" => ReaderFrame(2)
       /\ (dpc = "ReadValue16" /\ IsOk(dstatus'))
             => channel_count' = Val(Field(wav_data, offset, 2))
       /\ (dpc = "ReadValue32" /\ IsOk(dstatus'))
             => sample_rate' = Field(wav_data, offset, 4)]_vars

\* A ReadValue<uint32_t> that took the last four bytes of a five-byte buffer.
C18_Witness ==
    /\ dpc = "done"
    /\ IsOk(dstatus)
    /\ Len(wav_data) = 5
    /\ offset = 5
    /\ sample_rate = <<73, 70, 70, 82>>

=============================================================================
